---- MODULE Spec2Model ----
(***************************************************************************)
(* Model of the Bentley-Ottmann sweep-line engine of blood-geometry        *)
(* (src/src/bentley_ottman): the edge arena, the intrusive linked lists,   *)
(* the event queue, the sweep line and the two iterator variants           *)
(* (events/intersections and trapezoids).                                  *)
(*                                                                         *)
(* Scalars are exact rationals [n |-> numerator, d |-> denominator] in     *)
(* lowest terms with d > 0.  Floating-point rounding is not modelled; the  *)
(* approximate equality keeps the f32 epsilon of the source.               *)
(***************************************************************************)
EXTENDS Integers, Sequences, FiniteSets, Bags, TLC

(***************************************************************************)
(* Bounds of the model.                                                    *)
(***************************************************************************)
MaxSegs == 3
MaxIdleCalls == 2

(***************************************************************************)
(* Scalars.                                                                *)
(***************************************************************************)
EpsilonDen == 8388608

Abs(a) == IF a < 0 THEN -a ELSE a

RECURSIVE Gcd(_, _)
Gcd(a, b) == IF b = 0 THEN a ELSE Gcd(b, a % b)

Rat(n, d) ==
    LET s == IF d < 0 THEN -1 ELSE 1
        g == Gcd(Abs(n), Abs(d))
    IN  [n |-> (s * n) \div g, d |-> (s * d) \div g]

R(i) == [n |-> i, d |-> 1]
Zero == R(0)

\* Num::min_value(): below every coordinate of the model by more than epsilon.
Num_min_value == [n |-> -1, d |-> 0]

RAdd(a, b) == Rat(a.n * b.d + b.n * a.d, a.d * b.d)
RSub(a, b) == Rat(a.n * b.d - b.n * a.d, a.d * b.d)
RMul(a, b) == Rat(a.n * b.n, a.d * b.d)
RDiv(a, b) == Rat(a.n * b.d, a.d * b.n)
RLt(a, b) == a.n * b.d < b.n * a.d
RLe(a, b) == a.n * b.d <= b.n * a.d
RAbs(a) == [n |-> Abs(a.n), d |-> a.d]

\* a <= T::epsilon(), with epsilon = 1 / EpsilonDen
LeEpsilon(a) == \/ a.n <= 0
                \/ (a.n < a.d /\ a.n * EpsilonDen <= a.d)

\* a < T::epsilon()
LtEpsilon(a) == \/ a.n <= 0
                \/ (a.n < a.d /\ a.n * EpsilonDen < a.d)

\* impl ApproxEq for f32: (self - other).abs() < f32::EPSILON
approx_eq(a, b) ==
    IF a.d = 0 \/ b.d = 0 THEN a = b
    ELSE LtEpsilon(RAbs(RSub(a, b)))

\* PartialOrd on scalars as an Ordering
partial_cmp(a, b) == IF RLt(a, b) THEN "Less" ELSE IF a = b THEN "Equal" ELSE "Greater"

(***************************************************************************)
(* Points, vectors, lines, segments.                                       *)
(***************************************************************************)
Pt(x, y) == [x |-> x, y |-> y]

Point_approx_eq(p, q) == approx_eq(p.x, q.x) /\ approx_eq(p.y, q.y)

PtAdd(p, v) == Pt(RAdd(p.x, v.x), RAdd(p.y, v.y))
PtSub(p, q) == Pt(RSub(p.x, q.x), RSub(p.y, q.y))

cross(v, w) == RSub(RMul(v.x, w.y), RMul(w.x, v.y))

length_squared(v) == RAdd(RMul(v.x, v.x), RMul(v.y, v.y))

Line_new(origin, direction) == [origin |-> origin, direction |-> direction]

Line_between(a, b) == Line_new(a, PtSub(b, a))

Line_is_horizontal(line) == approx_eq(line.direction.y, Zero)

None == [none |-> TRUE]

\* Line::intersection: None when det <= epsilon
Line_intersection(self, line) ==
    LET Solve(det, a, b) ==
            IF LeEpsilon(det) THEN None
            ELSE Pt(RDiv(RSub(RMul(a, line.direction.x), RMul(b, self.direction.x)), det),
                    RDiv(RSub(RMul(a, line.direction.y), RMul(b, self.direction.y)), det))
    IN  Solve(cross(self.direction, line.direction),
              cross(self.origin, PtAdd(self.origin, self.direction)),
              cross(line.origin, PtAdd(line.origin, line.direction)))

\* Line::distance is |cross / length|; the model keeps the pair
\* (|cross|, length^2) because the length is a square root.
Line_distance(line, point) ==
    [cross |-> RAbs(cross(PtSub(point, line.origin), line.direction)),
     len2 |-> length_squared(line.direction)]

\* distance.approx_eq(&Num::zero()): |cross| / sqrt(len2) < epsilon,
\* i.e. cross^2 * EpsilonDen^2 < len2, evaluated without overflow.
Distance_approx_zero(dist) ==
    \/ dist.cross.n = 0
    \/ /\ dist.len2.n * dist.cross.d * dist.cross.d >= 1
       /\ dist.cross.n * dist.cross.n * dist.len2.d
             <= ((dist.len2.n * dist.cross.d * dist.cross.d - 1) \div EpsilonDen) \div EpsilonDen

\* Line::point_at_y: None when direction.y is approximately zero
Line_point_at_y(line, y) ==
    IF approx_eq(line.direction.y, Zero) THEN None
    ELSE Pt(RAdd(RDiv(RMul(RSub(y, line.origin.y), line.direction.x), line.direction.y),
                 line.origin.x),
            y)

order(a, b) == IF RLt(a, b) THEN <<a, b>> ELSE <<b, a>>

\* NhLineSegment::new: None iff the segment is horizontal
NhLineSegment_new(p1, p2) ==
    IF Line_is_horizontal(Line_between(p1, p2)) THEN None
    ELSE [line |-> Line_between(p1, p2),
          top |-> order(p1.y, p2.y)[1], bottom |-> order(p1.y, p2.y)[2]]

\* NhLineSegment::intersection
NhLineSegment_intersection(self, other) ==
    LET Bounded(intersection) ==
            IF intersection = None THEN None
            ELSE IF /\ RLe(intersection.y, self.top)
                    /\ RLe(self.bottom, intersection.y)
                    /\ RLe(intersection.y, other.top)
                    /\ RLe(other.bottom, intersection.y)
                 THEN intersection
                 ELSE None
    IN  Bounded(Line_intersection(self.line, other.line))

(***************************************************************************)
(* Edges (edge.rs).  Edge ids are 1..N; 0 stands for Option::None in the   *)
(* prev / next cells and in list roots.                                    *)
(***************************************************************************)
x_for_y(line, y) == Line_point_at_y(line, y).x

from_edge(edge, id) ==
    [edge |-> edge,
     lowest_y |-> Pt(x_for_y(edge.line, edge.top), edge.top),
     highest_y |-> Pt(x_for_y(edge.line, edge.bottom), edge.bottom),
     id |-> id]

start_event(e) == [edge_id |-> e.id, event_type |-> "Start", other_edge |-> 0, point |-> e.lowest_y]

stop_event(e) == [edge_id |-> e.id, event_type |-> "Stop", other_edge |-> 0, point |-> e.highest_y]

colinear(self, other) ==
    LET line == self.edge.line
        point == other.edge.line.origin
        vector == other.edge.line.direction
    IN  /\ Distance_approx_zero(Line_distance(line, point))
        /\ Distance_approx_zero(Line_distance(line, PtAdd(point, vector)))

x_at_y(e, y) == x_for_y(e.edge.line, y)

\* BoEdge::intersection_event (no check that the pair was already handled)
BoEdge_intersection_event(self, other) ==
    LET AsEvent(point) ==
            IF point = None THEN None
            ELSE [edge_id |-> self.id, event_type |-> "Intersection",
                  other_edge |-> other.id, point |-> point]
    IN  AsEvent(NhLineSegment_intersection(self.edge, other.edge))

(***************************************************************************)
(* Partial and completed trapezoids (edge.rs).  A partial is               *)
(* [right_edge, top, partial]; the field partial is a history tag that     *)
(* numbers the partials in creation order and is copied to the trapezoid   *)
(* completed from it.                                                      *)
(***************************************************************************)
Trapezoid_new(top, bottom, left, right, tag) ==
    [top |-> top, bottom |-> bottom, left |-> left, right |-> right, partial |-> tag]

\* PartialTrapezoid::complete with the two Y arguments of Trapezoid::new
\* exchanged
PartialTrapezoid_complete_exchanged(self, left_edge, bottom, all) ==
    LET left == all[left_edge]
        right == all[self.right_edge]
    IN  IF RLt(bottom, self.top) THEN None
        ELSE Trapezoid_new(bottom, self.top, left.edge.line, right.edge.line, self.partial)

\* PartialTrapezoid::complete
PartialTrapezoid_complete(self, left_edge, bottom, all) ==
    LET left == all[left_edge]
        right == all[self.right_edge]
    IN  IF RLt(bottom, self.top) THEN None
        ELSE Trapezoid_new(self.top, bottom, left.edge.line, right.edge.line, self.partial)

\* BoEdge::complete_trapezoid: takes the partial out of the cell
complete_trapezoid(trap, id, bottom, all) ==
    [trapezoid |-> [trap EXCEPT ![id] = None],
     completed |-> IF trap[id] = None THEN None
                   ELSE PartialTrapezoid_complete(trap[id], id, bottom, all)]

\* BoEdge::take_trapezoid: self takes the partial of other
take_trapezoid(trap, self, other) ==
    [trap EXCEPT ![self] = trap[other], ![other] = None]

\* BoEdge::start_trapezoid completing the old partial against the new right
\* edge instead of the recorded one
start_trapezoid_closing_at_new_right(trap, self, right, top, all, tag) ==
    LET Fresh(t) == [t EXCEPT ![self] = [right_edge |-> right, top |-> top, partial |-> tag]]
    IN  IF trap[self] = None
        THEN [trapezoid |-> Fresh(trap), completed |-> None, created |-> TRUE]
        ELSE IF trap[self].right_edge = right
        THEN [trapezoid |-> trap, completed |-> None, created |-> FALSE]
        ELSE IF colinear(all[trap[self].right_edge], all[right])
        THEN [trapezoid |-> [trap EXCEPT ![self].right_edge = right],
              completed |-> None, created |-> FALSE]
        ELSE [trapezoid |-> Fresh(trap),
              completed |-> PartialTrapezoid_complete([trap[self] EXCEPT !.right_edge = right],
                                                      self, top, all),
              created |-> TRUE]

\* BoEdge::start_trapezoid beginning a new partial at the sweep line when the
\* recorded right edge is colinear with the new one
start_trapezoid_restarting_colinear(trap, self, right, top, all, tag) ==
    LET Fresh(t) == [t EXCEPT ![self] = [right_edge |-> right, top |-> top, partial |-> tag]]
    IN  IF trap[self] = None
        THEN [trapezoid |-> Fresh(trap), completed |-> None, created |-> TRUE]
        ELSE IF trap[self].right_edge = right
        THEN [trapezoid |-> trap, completed |-> None, created |-> FALSE]
        ELSE IF colinear(all[trap[self].right_edge], all[right])
        THEN [trapezoid |-> Fresh(trap), completed |-> None, created |-> TRUE]
        ELSE [trapezoid |-> Fresh(trap),
              completed |-> PartialTrapezoid_complete(trap[self], self, top, all),
              created |-> TRUE]

\* BoEdge::start_trapezoid installing the new partial with the top of the
\* partial it completes
start_trapezoid_keeping_top(trap, self, right, top, all, tag) ==
    LET Fresh(t) == [t EXCEPT ![self] = [right_edge |-> right, top |-> top, partial |-> tag]]
    IN  IF trap[self] = None
        THEN [trapezoid |-> Fresh(trap), completed |-> None, created |-> TRUE]
        ELSE IF trap[self].right_edge = right
        THEN [trapezoid |-> trap, completed |-> None, created |-> FALSE]
        ELSE IF colinear(all[trap[self].right_edge], all[right])
        THEN [trapezoid |-> [trap EXCEPT ![self].right_edge = right],
              completed |-> None, created |-> FALSE]
        ELSE [trapezoid |-> [Fresh(trap) EXCEPT ![self].top = trap[self].top],
              completed |-> PartialTrapezoid_complete(trap[self], self, top, all),
              created |-> TRUE]

\* BoEdge::start_trapezoid; tag is the number the next new partial gets
start_trapezoid(trap, self, right, top, all, tag) ==
    LET Fresh(t) == [t EXCEPT ![self] = [right_edge |-> right, top |-> top, partial |-> tag]]
    IN  IF trap[self] = None
        THEN [trapezoid |-> Fresh(trap), completed |-> None, created |-> TRUE]
        ELSE IF trap[self].right_edge = right
        THEN [trapezoid |-> trap, completed |-> None, created |-> FALSE]
        ELSE IF colinear(all[trap[self].right_edge], all[right])
        THEN [trapezoid |-> [trap EXCEPT ![self].right_edge = right],
              completed |-> None, created |-> FALSE]
        ELSE [trapezoid |-> Fresh(trap),
              completed |-> PartialTrapezoid_complete(trap[self], self, top, all),
              created |-> TRUE]

(***************************************************************************)
(* Intrusive linked list (linked_list.rs).  A list is its root; the cells  *)
(* prev and next are functions over the edge ids shared by both lists.     *)
(* Every operation returns [root, prev, next].                             *)
(***************************************************************************)
RECURSIVE IterFrom(_, _, _)
IterFrom(current, nxt, fuel) ==
    IF current = 0 \/ fuel = 0 THEN <<>>
    ELSE <<current>> \o IterFrom(nxt[current], nxt, fuel - 1)

\* LinkedList::iter, collected; a walk is cut after one more step than
\* there are edges, so a cyclic list shows as an over-long sequence
iter(root, nxt) == IterFrom(root, nxt, Cardinality(DOMAIN nxt) + 1)

\* LinkedList::pairs, collected
RECURSIVE PairsOf(_)
PairsOf(s) == IF Len(s) < 2 THEN <<>>
              ELSE << <<s[1], s[2]>> >> \o PairsOf(SubSeq(s, 3, Len(s)))

\* LinkedList::pairs yielding every two neighbours
pairs_overlapping(root, nxt) ==
    [k \in 1..(Len(iter(root, nxt)) - 1) |-> <<iter(root, nxt)[k], iter(root, nxt)[k + 1]>>]

pairs(root, nxt) == PairsOf(iter(root, nxt))

\* LinkedList::push linking the edge in front of the root
push_front(root, prv, nxt, edge) ==
    [root |-> edge,
     prev |-> [(IF root # 0 THEN [prv EXCEPT ![root] = edge] ELSE prv) EXCEPT ![edge] = 0],
     next |-> [nxt EXCEPT ![edge] = root]]

\* LinkedList::push
push(root, prv, nxt, edge) ==
    LET Link(node) ==
            [root |-> root,
             prev |-> [prv EXCEPT ![edge] = node],
             next |-> [[nxt EXCEPT ![node] = edge] EXCEPT ![edge] = 0]]
        Last(walk) == walk[Len(walk)]
    IN  IF root = 0
        THEN [root |-> edge, prev |-> [prv EXCEPT ![edge] = 0], next |-> [nxt EXCEPT ![edge] = 0]]
        ELSE Link(Last(iter(root, nxt)))

\* LinkedList::insert splicing before the last member the closure accepts
insert_before_last_hit(root, prv, nxt, edge, before) ==
    LET Splice(node, p) ==
            [root |-> IF p # 0 THEN root ELSE edge,
             prev |-> [[prv EXCEPT ![edge] = p] EXCEPT ![node] = edge],
             next |-> [(IF p # 0 THEN [nxt EXCEPT ![p] = edge] ELSE nxt) EXCEPT ![edge] = node]]
        Place(walk, hits) ==
            IF hits = {} THEN push(root, prv, nxt, edge)
            ELSE Splice(walk[CHOOSE i \in hits : \A j \in hits : i >= j],
                        prv[walk[CHOOSE i \in hits : \A j \in hits : i >= j]])
        Find(walk) == Place(walk, {i \in 1..Len(walk) : before[<<edge, walk[i]>>]})
    IN  Find(iter(root, nxt))

\* LinkedList::insert; the closure is the function before[<<edge, n>>], which
\* tells whether edge goes before the member n
insert(root, prv, nxt, edge, before) ==
    LET Splice(node, p) ==
            [root |-> IF p # 0 THEN root ELSE edge,
             prev |-> [[prv EXCEPT ![edge] = p] EXCEPT ![node] = edge],
             next |-> [(IF p # 0 THEN [nxt EXCEPT ![p] = edge] ELSE nxt) EXCEPT ![edge] = node]]
        Place(walk, hits) ==
            IF hits = {} THEN push(root, prv, nxt, edge)
            ELSE Splice(walk[CHOOSE i \in hits : \A j \in hits : i <= j],
                        prv[walk[CHOOSE i \in hits : \A j \in hits : i <= j]])
        Find(walk) == Place(walk, {i \in 1..Len(walk) : before[<<edge, walk[i]>>]})
    IN  Find(iter(root, nxt))

\* LinkedList::remove without next.set_prev(prev): the successor keeps
\* pointing at the removed edge
remove_keeping_prev(root, prv, nxt, edge) ==
    LET Unlink(p, n) ==
            [root |-> IF p # 0 THEN root ELSE n,
             prev |-> [prv EXCEPT ![edge] = 0],
             next |-> [(IF p # 0 THEN [nxt EXCEPT ![p] = n] ELSE nxt) EXCEPT ![edge] = 0]]
    IN  Unlink(prv[edge], nxt[edge])

\* LinkedList::remove without edge.set_next(None) and edge.set_prev(None)
remove_keeping_cells(root, prv, nxt, edge) ==
    LET Unlink(p, n) ==
            [root |-> IF p # 0 THEN root ELSE n,
             prev |-> IF n # 0 THEN [prv EXCEPT ![n] = p] ELSE prv,
             next |-> IF p # 0 THEN [nxt EXCEPT ![p] = n] ELSE nxt]
    IN  Unlink(prv[edge], nxt[edge])

\* LinkedList::remove
remove(root, prv, nxt, edge) ==
    LET Unlink(p, n) ==
            [root |-> IF p # 0 THEN root ELSE n,
             prev |-> [(IF n # 0 THEN [prv EXCEPT ![n] = p] ELSE prv) EXCEPT ![edge] = 0],
             next |-> [(IF p # 0 THEN [nxt EXCEPT ![p] = n] ELSE nxt) EXCEPT ![edge] = 0]]
    IN  Unlink(prv[edge], nxt[edge])

\* LinkedList::swap without self.root = Some(next.id())
swap_keeping_root(root, prv, nxt, edge) ==
    LET Exchange(n, p, next_next) ==
            [root |-> root,
             prev |-> [[(IF next_next # 0 THEN [prv EXCEPT ![next_next] = edge] ELSE prv)
                           EXCEPT ![edge] = n] EXCEPT ![n] = p],
             next |-> [[(IF p # 0 THEN [nxt EXCEPT ![p] = n] ELSE nxt)
                           EXCEPT ![edge] = next_next] EXCEPT ![n] = edge]]
    IN  IF nxt[edge] = 0 THEN [root |-> root, prev |-> prv, next |-> nxt]
        ELSE Exchange(nxt[edge], prv[edge], nxt[nxt[edge]])

\* LinkedList::swap with edge.set_prev(None) in place of Some(next.id())
swap_clearing_prev(root, prv, nxt, edge) ==
    LET Exchange(n, p, next_next) ==
            [root |-> IF p # 0 THEN root ELSE n,
             prev |-> [[(IF next_next # 0 THEN [prv EXCEPT ![next_next] = edge] ELSE prv)
                           EXCEPT ![edge] = 0] EXCEPT ![n] = p],
             next |-> [[(IF p # 0 THEN [nxt EXCEPT ![p] = n] ELSE nxt)
                           EXCEPT ![edge] = next_next] EXCEPT ![n] = edge]]
    IN  IF nxt[edge] = 0 THEN [root |-> root, prev |-> prv, next |-> nxt]
        ELSE Exchange(nxt[edge], prv[edge], nxt[nxt[edge]])

\* LinkedList::swap unlinking an edge that has no successor
swap_unlinking_last(root, prv, nxt, edge) ==
    LET Exchange(n, p, next_next) ==
            [root |-> IF p # 0 THEN root ELSE n,
             prev |-> [[(IF next_next # 0 THEN [prv EXCEPT ![next_next] = edge] ELSE prv)
                           EXCEPT ![edge] = n] EXCEPT ![n] = p],
             next |-> [[(IF p # 0 THEN [nxt EXCEPT ![p] = n] ELSE nxt)
                           EXCEPT ![edge] = next_next] EXCEPT ![n] = edge]]
    IN  IF nxt[edge] = 0 THEN remove(root, prv, nxt, edge)
        ELSE Exchange(nxt[edge], prv[edge], nxt[nxt[edge]])

\* LinkedList::swap: exchange edge with its successor; no-op when there is none
swap(root, prv, nxt, edge) ==
    LET Exchange(n, p, next_next) ==
            [root |-> IF p # 0 THEN root ELSE n,
             prev |-> [[(IF next_next # 0 THEN [prv EXCEPT ![next_next] = edge] ELSE prv)
                           EXCEPT ![edge] = n] EXCEPT ![n] = p],
             next |-> [[(IF p # 0 THEN [nxt EXCEPT ![p] = n] ELSE nxt)
                           EXCEPT ![edge] = next_next] EXCEPT ![n] = edge]]
    IN  IF nxt[edge] = 0 THEN [root |-> root, prev |-> prv, next |-> nxt]
        ELSE Exchange(nxt[edge], prv[edge], nxt[nxt[edge]])

(***************************************************************************)
(* Sweep line (sweep_line.rs).                                             *)
(***************************************************************************)
\* approx_cmp
approx_cmp(a, b) == IF approx_eq(a, b) THEN "Equal" ELSE partial_cmp(a, b)

\* Partial::or_else
or_else(inner, f) == IF inner = "Equal" THEN f ELSE inner

\* SweepLine::compare_edges at sweep position y
compare_edges(y, a, b) ==
    or_else(or_else(approx_cmp(x_at_y(a, y), x_at_y(b, y)),
                    approx_cmp(a.lowest_y.x, b.lowest_y.x)),
            approx_cmp(a.highest_y.x, b.highest_y.x))

\* SweepLine::add_edge on the active list
add_edge(y, root, prv, nxt, edge, all) ==
    insert(root, prv, nxt, edge,
           [p \in {edge} \X DOMAIN nxt |->
               compare_edges(y, all[p[1]], all[p[2]]) \in {"Less", "Equal"}])

\* SweepLine::take_leftovers iterating over the first leftover edge only
take_leftovers_first_only(root, nxt) ==
    [root |-> 0, walk |-> IF root = 0 THEN <<>> ELSE <<root>>]

\* SweepLine::take_leftovers: the root is taken, the cells are left as they
\* are, and the former members are iterated through their next cells
take_leftovers(root, nxt) == [root |-> 0, walk |-> iter(root, nxt)]

\* take_leftovers(..).filter_map(|edge| edge.complete_trapezoid(edge.edge().bottom(), edges))
RECURSIVE CompleteLeftovers(_, _, _)
CompleteLeftovers(walk, trap, all) ==
    LET Emit(r, rest) ==
            [trapezoid |-> rest.trapezoid,
             out |-> (IF r.completed = None THEN <<>> ELSE <<r.completed>>) \o rest.out]
        Step(r) == Emit(r, CompleteLeftovers(Tail(walk), r.trapezoid, all))
    IN  IF walk = <<>> THEN [trapezoid |-> trap, out |-> <<>>]
        ELSE Step(complete_trapezoid(trap, walk[1], all[walk[1]].edge.bottom, all))

\* SweepLine::trapezoids: start_trapezoid on every pair of the active list
RECURSIVE SweepLine_trapezoids(_, _, _, _, _)
SweepLine_trapezoids(prs, trap, y, all, tag) ==
    LET Emit(r, rest) ==
            [trapezoid |-> rest.trapezoid,
             out |-> (IF r.completed = None THEN <<>> ELSE <<r.completed>>) \o rest.out,
             tag |-> rest.tag]
        Step(r) == Emit(r, SweepLine_trapezoids(Tail(prs), r.trapezoid, y, all,
                                                IF r.created THEN tag + 1 ELSE tag))
    IN  IF prs = <<>> THEN [trapezoid |-> trap, out |-> <<>>, tag |-> tag]
        ELSE Step(start_trapezoid(trap, prs[1][1], prs[1][2], y, all, tag))

(***************************************************************************)
(* Event queue (priority_queue.rs): a bag of events; pop takes an event    *)
(* that is minimal in (point.y, point.x).  The order in which the binary   *)
(* heap returns events of equal key is left open.                          *)
(***************************************************************************)
\* EventOrder::partial_cmp with the coordinates compared in the other order,
\* X before Y
EventOrder_cmp_x_first(a, b) ==
    IF partial_cmp(a.point.x, b.point.x) = "Equal"
    THEN partial_cmp(a.point.y, b.point.y)
    ELSE partial_cmp(a.point.x, b.point.x)

\* EventOrder::partial_cmp
EventOrder_cmp(a, b) ==
    IF partial_cmp(a.point.y, b.point.y) = "Equal"
    THEN partial_cmp(a.point.x, b.point.x)
    ELSE partial_cmp(a.point.y, b.point.y)

MinEvents(q) ==
    {e \in BagToSet(q) : \A f \in BagToSet(q) : EventOrder_cmp(e, f) # "Greater"}

PriorityQueue_push(q, event) == q (+) SetToBag({event})

RECURSIVE PriorityQueue_extend(_, _)
PriorityQueue_extend(q, events) ==
    IF events = <<>> THEN q
    ELSE PriorityQueue_extend(IF events[1] = None THEN q ELSE PriorityQueue_push(q, events[1]),
                              Tail(events))

(***************************************************************************)
(* Algorithm driver (algorithm/mod.rs).                                    *)
(***************************************************************************)
\* Algorithm::new: horizontals dropped, survivors numbered 1..N
NonHorizontal(segments) ==
    SelectSeq([i \in 1..Len(segments) |-> NhLineSegment_new(segments[i].from, segments[i].to)],
              LAMBDA s : s # None)

\* Algorithm::new numbering the surviving segments from the last to the first
Algorithm_new_edges_reversed(segments) ==
    LET Number(kept) == [i \in 1..Len(kept) |-> from_edge(kept[Len(kept) + 1 - i], i)]
    IN  Number(NonHorizontal(segments))

Algorithm_new_edges(segments) ==
    LET Number(kept) == [i \in 1..Len(kept) |-> from_edge(kept[i], i)]
    IN  Number(NonHorizontal(segments))

Algorithm_new_queue(all) == SetToBag({start_event(all[i]) : i \in 1..Len(all)})

\* intersection_event(e1, e2), the free function of mod.rs
intersection_event(e1, e2) ==
    LET Filter(ev) ==
            IF ev = None THEN None
            ELSE IF \/ Point_approx_eq(e1.lowest_y, e2.lowest_y)
                    \/ Point_approx_eq(e1.lowest_y, e2.highest_y)
            THEN (IF Point_approx_eq(e1.lowest_y, ev.point) THEN ev ELSE None)
            ELSE IF \/ Point_approx_eq(e1.highest_y, e2.highest_y)
                    \/ Point_approx_eq(e1.highest_y, e2.lowest_y)
            THEN (IF Point_approx_eq(e1.highest_y, ev.point) THEN ev ELSE None)
            ELSE ev
    IN  IF RLe(e2.lowest_y.x, e1.lowest_y.x) THEN None
        ELSE Filter(BoEdge_intersection_event(e1, e2))

\* the spurious test with the comparison against highest_y left out
Spurious_lowest_only(event, all) ==
    /\ event.event_type = "Intersection"
    /\ Point_approx_eq(event.point, all[event.edge_id].lowest_y)

\* the test of next_event for a spurious endpoint intersection
Spurious(event, all) ==
    /\ event.event_type = "Intersection"
    /\ \/ Point_approx_eq(event.point, all[event.edge_id].lowest_y)
       \/ Point_approx_eq(event.point, all[event.edge_id].highest_y)

\* the pop loop of next_event with the popped event left in the queue
PopEvent_peek(q, all) ==
    IF BagToSet(q) = {} THEN {[event |-> None, queue |-> q]}
    ELSE {[event |-> e, queue |-> q] : e \in {f \in MinEvents(q) : ~Spurious(f, all)}}

\* the pop loop of next_event: the set of possible (event, remaining queue);
\* event is None when the queue runs out
RECURSIVE PopEvent(_, _)
PopEvent(q, all) ==
    LET Take(e, rest) ==
            IF Spurious(e, all) THEN PopEvent(rest, all)
            ELSE {[event |-> e, queue |-> rest]}
    IN  IF BagToSet(q) = {} THEN {[event |-> None, queue |-> q]}
        ELSE UNION {Take(e, q (-) SetToBag({e})) : e \in MinEvents(q)}

\* bentley_ottmann: the points of the Intersection events, in order
bentley_ottmann(events) ==
    LET Points(kept) == [i \in 1..Len(kept) |-> kept[i].point]
    IN  Points(SelectSeq(events, LAMBDA e : e.event_type = "Intersection"))

(***************************************************************************)
(* State.                                                                  *)
(***************************************************************************)
VARIABLES
    segments,         \* the input handed to Algorithm::new
    variant,          \* "NoTrapezoids" or "Trapezoids"
    edges,            \* Edges: the arena, a sequence indexed by id
    prev,             \* BoEdge::prev of every edge (0 = None)
    next,             \* BoEdge::next of every edge (0 = None)
    trapezoid,        \* BoEdge::trapezoid of every edge (None or a partial)
    active,           \* SweepLine::active, the root of the list
    leftovers,        \* SweepLine::leftovers, the root of the list
    current_y,        \* SweepLine::current_y
    event_queue,      \* Algorithm::event_queue
    trapezoids,       \* Trapezoids::trapezoids, the Vec of completed trapezoids
    fused_leftovers,  \* Trapezoids::fused_leftovers
    in_call,          \* next_trapezoid is inside its loop
    returned,         \* history: events returned by next_event
    yielded,          \* history: trapezoids returned by next_trapezoid
    exhausted,        \* history: the iterator has returned None
    idle,             \* history: number of calls that returned None
    flushes,          \* history: number of runs of the final leftover flush
    drained,          \* history: edges taken out by take_leftovers
    next_tag,         \* history: number of partials created so far, plus one
    seeded,           \* history: Intersection events put into the queue at construction
    buffered,         \* history: the batches of trapezoids put into Trapezoids::trapezoids
    size_hints,       \* history: the tightest bounds on the number of yielded trapezoids
                      \* promised by the size hints seen between calls
    calls             \* history: the latest list operation with the list before it, or
                      \* the calls of intersection_event made by the latest next_event

vars == <<segments, variant, edges, prev, next, trapezoid, active, leftovers, current_y,
          event_queue, trapezoids, fused_leftovers, in_call, returned, yielded, exhausted,
          idle, flushes, drained, next_tag, seeded, buffered, size_hints,
          calls>>

Range(s) == {s[i] : i \in DOMAIN s}

(***************************************************************************)
(* Inputs.  The sweep never compares edge ids and the order of equal-key   *)
(* events is left open, so the behaviour does not depend on the order of   *)
(* the input up to a renumbering of the edges: the generated inputs are    *)
(* the sequences of at most MaxSegs segments, in non-decreasing SegKey     *)
(* order, over                                                             *)
(*   - UnitSegments: all segments between distinct points of the unit      *)
(*     grid, horizontals and both directions included;                     *)
(*   - TallSegments: the downward segments of the grid with three rows.    *)
(* The worked scenarios are added in the order they are written.           *)
(***************************************************************************)
Seg(x1, y1, x2, y2) == [from |-> Pt(R(x1), R(y1)), to |-> Pt(R(x2), R(y2))]

Columns == 0..1
UnitRows == 0..1
TallRows == 0..2

GridPoints(xs, ys) == {Pt(R(x), R(y)) : x \in xs, y \in ys}

UnitSegments ==
    {s \in [from : GridPoints(Columns, UnitRows), to : GridPoints(Columns, UnitRows)] :
        s.from # s.to}

TallSegments ==
    {s \in [from : GridPoints(Columns, TallRows), to : GridPoints(Columns, TallRows)] :
        RLt(s.from.y, s.to.y)}

SegKey(s) == ((s.from.x.n * 3 + s.from.y.n) * 2 + s.to.x.n) * 3 + s.to.y.n

SortedInputs(alphabet) ==
    UNION {{f \in [1..n -> alphabet] : \A i \in 1..(n - 1) : SegKey(f[i]) <= SegKey(f[i + 1])} :
              n \in 0..MaxSegs}

ScenarioS1 == <<Seg(0, 0, 10, 10), Seg(0, 10, 10, 0)>>
ScenarioS2 == <<Seg(0, 0, 1, 0), Seg(1, 0, 1, 1), Seg(1, 1, 0, 1), Seg(0, 1, 0, 0)>>
ScenarioS3 == <<Seg(0, 0, 0, 5), Seg(0, 5, 0, 10), Seg(1, 0, 1, 10)>>
ScenarioStaggered == <<Seg(1, 0, 1, 3), Seg(2, 0, 2, 4), Seg(3, 0, 3, 1), Seg(0, 1, 0, 2)>>
ScenarioCrossing == <<Seg(0, 0, 10, 10), Seg(0, 10, 10, 0), Seg(20, 0, 20, 7)>>
ScenarioS5 == <<Seg(0, 0, 2, 2), Seg(2, 2, 4, 0)>>

Scenarios ==
    {ScenarioS1, ScenarioS2, ScenarioS3, ScenarioStaggered, ScenarioCrossing, ScenarioS5}

Inputs == SortedInputs(UnitSegments) \cup SortedInputs(TallSegments) \cup Scenarios

\* Trapezoids::size_hint
Trapezoids_size_hint(traps, queue) ==
    [lower |-> Len(traps), upper |-> Len(traps) + BagCardinality(queue) * 2]

\* the bounds on the final number of yielded trapezoids after a size hint is
\* seen when n trapezoids have been yielded (most = -1: no hint seen yet)
Observe(h, n, hint) ==
    [least |-> IF h.least < n + hint.lower THEN n + hint.lower ELSE h.least,
     most |-> IF h.most = -1 \/ n + hint.upper < h.most THEN n + hint.upper ELSE h.most]

\* Algorithm::new on segs for variant v; seed is a set of Intersection events
\* put into the queue beside the Start events (empty in Algorithm::new itself)
Algorithm_new(segs, v, seed) ==
    LET all == Algorithm_new_edges(segs)
    IN  /\ segments = segs
        /\ variant = v
        /\ edges = all
        /\ prev = [i \in 1..Len(all) |-> 0]
        /\ next = [i \in 1..Len(all) |-> 0]
        /\ trapezoid = [i \in 1..Len(all) |-> None]
        /\ active = 0
        /\ leftovers = 0
        /\ current_y = Num_min_value
        /\ event_queue = Algorithm_new_queue(all) (+) SetToBag(seed)
        /\ trapezoids = <<>>
        /\ fused_leftovers = FALSE
        /\ in_call = FALSE
        /\ returned = <<>>
        /\ yielded = <<>>
        /\ exhausted = FALSE
        /\ idle = 0
        /\ flushes = 0
        /\ drained = {}
        /\ next_tag = 1
        /\ seeded = seed
        /\ buffered = <<>>
        /\ size_hints =
              Observe([least |-> 0, most |-> -1], 0,
                      Trapezoids_size_hint(<<>>, Algorithm_new_queue(all) (+) SetToBag(seed)))
        /\ calls = <<>>

Init ==
    \E segs \in Inputs, v \in {"NoTrapezoids", "Trapezoids"} : Algorithm_new(segs, v, {})

(***************************************************************************)
(* next_event and its handlers, as functions of the mutable part of the    *)
(* state st = [prev, next, trapezoid, active, leftovers, current_y,        *)
(* event_queue, trapezoids, drained, next_tag, calls].                     *)
(***************************************************************************)
State ==
    [prev |-> prev, next |-> next, trapezoid |-> trapezoid, active |-> active,
     leftovers |-> leftovers, current_y |-> current_y, event_queue |-> event_queue,
     trapezoids |-> trapezoids, drained |-> drained, next_tag |-> next_tag,
     calls |-> calls]

\* the list root together with the cells, written back into the state
SetActive(st, l) == [st EXCEPT !.active = l.root, !.prev = l.prev, !.next = l.next]

SetLeftovers(st, l) == [st EXCEPT !.leftovers = l.root, !.prev = l.prev, !.next = l.next]

\* Trapezoids::increment_y
Trapezoids_increment_y(st, new_y) ==
    LET Buffer(t, lo, sw) ==
            [st EXCEPT !.leftovers = t.root,
                       !.trapezoid = sw.trapezoid,
                       !.trapezoids = @ \o lo.out \o sw.out,
                       !.drained = @ \cup Range(t.walk),
                       !.next_tag = sw.tag]
        Sweep(t, lo) ==
            Buffer(t, lo, SweepLine_trapezoids(pairs(st.active, st.next), lo.trapezoid,
                                               st.current_y, edges, st.next_tag))
        Drain(t) == Sweep(t, CompleteLeftovers(t.walk, st.trapezoid, edges))
    IN  IF approx_eq(st.current_y, new_y)
        THEN Drain(take_leftovers(st.leftovers, st.next))
        ELSE st

\* Trapezoids::handle_start_event: leftover fusion
Trapezoids_handle_start_event(st, edge) ==
    LET Fuse(line) ==
            SetLeftovers([st EXCEPT !.trapezoid = take_trapezoid(@, edge, line)],
                         remove(st.leftovers, st.prev, st.next, line))
        Pick(walk, hits) ==
            IF hits = {} THEN st
            ELSE Fuse(walk[CHOOSE i \in hits : \A j \in hits : i <= j])
        Find(walk) ==
            Pick(walk, {i \in 1..Len(walk) :
                           /\ RLe(edges[edge].edge.top, edges[walk[i]].edge.bottom)
                           /\ colinear(edges[edge], edges[walk[i]])})
    IN  Find(iter(st.leftovers, st.next))

\* Variant::increment_y
Var_increment_y(st, new_y) ==
    IF variant = "Trapezoids" THEN Trapezoids_increment_y(st, new_y) ELSE st

\* Variant::handle_start_event
Var_handle_start_event(st, edge) ==
    IF variant = "Trapezoids" THEN Trapezoids_handle_start_event(st, edge) ELSE st

\* SweepLine::remove_edge without self.active.remove(edge, all): the edge is
\* pushed onto the leftovers while the active list still holds it
remove_edge_keeping_active(st, edge) ==
    IF st.trapezoid[edge] # None
    THEN SetLeftovers(st, push(st.leftovers, st.prev, st.next, edge))
    ELSE SetActive(st, remove(st.active, st.prev, st.next, edge))

\* SweepLine::remove_edge without the test of edge.pending_trapezoid(): every
\* removed edge is pushed onto the leftovers
remove_edge_always_leftover(st, edge) ==
    LET Leftover(st1) == SetLeftovers(st1, push(st1.leftovers, st1.prev, st1.next, edge))
    IN  Leftover(SetActive(st, remove(st.active, st.prev, st.next, edge)))

\* SweepLine::remove_edge
remove_edge(st, edge) ==
    LET Leftover(st1) ==
            IF st1.trapezoid[edge] # None
            THEN SetLeftovers(st1, push(st1.leftovers, st1.prev, st1.next, edge))
            ELSE st1
    IN  Leftover(SetActive(st, remove(st.active, st.prev, st.next, edge)))

\* the record of a call intersection_event(e1, e2)
IntersectionCall(e1, e2) == [op |-> "intersection_event", e1 |-> e1, e2 |-> e2]

\* Algorithm::handle_start_event without the push of the Stop event
handle_start_event_without_stop(st, event) ==
    LET e == event.edge_id
        Neighbours(st2, p, n) ==
            [st2 EXCEPT !.event_queue = PriorityQueue_extend(@,
                <<IF p # 0 THEN intersection_event(edges[p], edges[e]) ELSE None,
                  IF n # 0 THEN intersection_event(edges[n], edges[e]) ELSE None>>),
                        !.calls = @ \o (IF p # 0 THEN <<IntersectionCall(p, e)>> ELSE <<>>)
                                    \o (IF n # 0 THEN <<IntersectionCall(n, e)>> ELSE <<>>)]
        Intersects(st2) == Neighbours(st2, st2.prev[e], st2.next[e])
        Added(st1) ==
            Intersects(Var_handle_start_event(st1, e))
    IN  Added(SetActive(st, add_edge(st.current_y, st.active, st.prev, st.next, e, edges)))

\* Algorithm::handle_start_event
handle_start_event(st, event) ==
    LET e == event.edge_id
        Neighbours(st2, p, n) ==
            [st2 EXCEPT !.event_queue = PriorityQueue_extend(@,
                <<IF p # 0 THEN intersection_event(edges[p], edges[e]) ELSE None,
                  IF n # 0 THEN intersection_event(edges[n], edges[e]) ELSE None>>),
                        !.calls = @ \o (IF p # 0 THEN <<IntersectionCall(p, e)>> ELSE <<>>)
                                    \o (IF n # 0 THEN <<IntersectionCall(n, e)>> ELSE <<>>)]
        Intersects(st2) == Neighbours(st2, st2.prev[e], st2.next[e])
        Added(st1) ==
            Intersects(Var_handle_start_event(
                [st1 EXCEPT !.event_queue = PriorityQueue_push(@, stop_event(edges[e]))], e))
    IN  Added(SetActive(st, add_edge(st.current_y, st.active, st.prev, st.next, e, edges)))

\* Algorithm::handle_stop_event
handle_stop_event(st, event) ==
    LET e == event.edge_id
        Removed(p, n, st1) ==
            IF p # 0 /\ n # 0
            THEN [st1 EXCEPT !.event_queue =
                      PriorityQueue_extend(@, <<intersection_event(edges[p], edges[n])>>),
                             !.calls = Append(@, IntersectionCall(p, n))]
            ELSE st1
    IN  Removed(st.prev[e], st.next[e], remove_edge(st, e))

\* Algorithm::handle_intersection_event
handle_intersection_event(st, event) ==
    LET e == event.edge_id
        Neighbours(st1, other, p, n) ==
            [st1 EXCEPT !.event_queue = PriorityQueue_extend(@,
                <<IF p # 0 THEN intersection_event(edges[p], edges[other]) ELSE None,
                  IF n # 0 THEN intersection_event(edges[other], edges[n]) ELSE None>>),
                        !.calls = @ \o (IF p # 0 THEN <<IntersectionCall(p, other)>> ELSE <<>>)
                                    \o (IF n # 0 THEN <<IntersectionCall(other, n)>> ELSE <<>>)]
        Other(st1, other) ==
            IF other # 0 THEN Neighbours(st1, other, st1.prev[other], st1.next[other])
            ELSE st1
        Swapped(st1) == Other(st1, st1.prev[e])
    IN  Swapped(SetActive(st, swap(st.active, st.prev, st.next, e)))

\* Algorithm::next_event after the pop loop has produced popped.event
next_event(st, popped) ==
    LET Dispatch(event, st2) ==
            CASE event.event_type = "Start" -> handle_start_event(st2, event)
              [] event.event_type = "Stop" -> handle_stop_event(st2, event)
              [] event.event_type = "Intersection" -> handle_intersection_event(st2, event)
        SetY(event, st1) == Dispatch(event, [st1 EXCEPT !.current_y = event.point.y])
        IncrementY(event, st0) == SetY(event, Var_increment_y(st0, event.point.y))
    IN  IncrementY(popped.event, [st EXCEPT !.event_queue = popped.queue, !.calls = <<>>])

\* the final leftover flush of next_trapezoid
final_flush(st) ==
    LET Buffer(t, lo) ==
            [st EXCEPT !.leftovers = t.root,
                       !.trapezoid = lo.trapezoid,
                       !.trapezoids = @ \o lo.out,
                       !.drained = @ \cup Range(t.walk)]
        Drain(t) == Buffer(t, CompleteLeftovers(t.walk, st.trapezoid, edges))
    IN  Drain(take_leftovers(st.leftovers, st.next))

Apply(st) ==
    /\ prev' = st.prev
    /\ next' = st.next
    /\ trapezoid' = st.trapezoid
    /\ active' = st.active
    /\ leftovers' = st.leftovers
    /\ current_y' = st.current_y
    /\ event_queue' = st.event_queue
    /\ trapezoids' = st.trapezoids
    /\ drained' = st.drained
    /\ next_tag' = st.next_tag
    /\ calls' = st.calls
    /\ buffered' = IF Len(st.trapezoids) > Len(trapezoids)
                   THEN Append(buffered,
                               SubSeq(st.trapezoids, Len(trapezoids) + 1, Len(st.trapezoids)))
                   ELSE buffered

(***************************************************************************)
(* Actions.                                                                *)
(***************************************************************************)
\* BentleyOttmann::next: one call of next_event in the events variant
BentleyOttmann_next ==
    /\ variant = "NoTrapezoids"
    /\ idle < MaxIdleCalls
    /\ \E popped \in PopEvent(event_queue, edges) :
          IF popped.event = None
          THEN /\ Apply([State EXCEPT !.event_queue = popped.queue])
               /\ exhausted' = TRUE
               /\ idle' = idle + 1
               /\ returned' = returned
          ELSE /\ Apply(next_event(State, popped))
               /\ returned' = Append(returned, popped.event)
               /\ UNCHANGED <<exhausted, idle>>
    /\ UNCHANGED <<seeded, size_hints, segments, variant, edges, fused_leftovers,
                   in_call, yielded, flushes>>

\* next_trapezoid taking the first buffered trapezoid instead of the last
Trapezoids_next_pop_front ==
    /\ variant = "Trapezoids"
    /\ trapezoids # <<>>
    /\ yielded' = Append(yielded, trapezoids[1])
    /\ trapezoids' = Tail(trapezoids)
    /\ in_call' = FALSE
    /\ size_hints' = Observe(size_hints, Len(yielded) + 1,
                           Trapezoids_size_hint(Tail(trapezoids), event_queue))
    /\ UNCHANGED <<seeded, buffered, calls, segments, variant, edges, prev, next,
                   trapezoid, active, leftovers, current_y, event_queue, fused_leftovers,
                   returned, exhausted, idle, flushes, drained, next_tag>>

\* next_trapezoid, loop iteration with a buffered trapezoid: Vec::pop, return it
Trapezoids_next_pop ==
    /\ variant = "Trapezoids"
    /\ trapezoids # <<>>
    /\ yielded' = Append(yielded, trapezoids[Len(trapezoids)])
    /\ trapezoids' = SubSeq(trapezoids, 1, Len(trapezoids) - 1)
    /\ in_call' = FALSE
    /\ size_hints' =
          Observe(size_hints, Len(yielded) + 1,
                  Trapezoids_size_hint(SubSeq(trapezoids, 1, Len(trapezoids) - 1), event_queue))
    /\ UNCHANGED <<seeded, buffered, calls, segments, variant, edges, prev, next,
                   trapezoid, active, leftovers, current_y, event_queue, fused_leftovers,
                   returned, exhausted, idle, flushes, drained, next_tag>>

\* next_trapezoid, loop iteration with an empty buffer and next_event = Some
Trapezoids_next_event ==
    /\ variant = "Trapezoids"
    /\ trapezoids = <<>>
    /\ \E popped \in PopEvent(event_queue, edges) :
          /\ popped.event # None
          /\ Apply(next_event(State, popped))
          /\ returned' = Append(returned, popped.event)
    /\ in_call' = TRUE
    /\ UNCHANGED <<seeded, size_hints, segments, variant, edges, fused_leftovers,
                   yielded, exhausted, idle, flushes>>

\* the final flush without self.variant.fused_leftovers = true
Trapezoids_next_flush_unguarded ==
    /\ variant = "Trapezoids"
    /\ trapezoids = <<>>
    /\ ~fused_leftovers
    /\ flushes < MaxIdleCalls
    /\ \E popped \in PopEvent(event_queue, edges) :
          /\ popped.event = None
          /\ Apply(final_flush([State EXCEPT !.event_queue = popped.queue]))
    /\ flushes' = flushes + 1
    /\ in_call' = TRUE
    /\ UNCHANGED <<seeded, size_hints, segments, variant, edges, fused_leftovers,
                   returned, yielded, exhausted, idle>>

\* next_trapezoid, loop iteration with an empty buffer, next_event = None and
\* the leftovers not flushed yet
Trapezoids_next_flush ==
    /\ variant = "Trapezoids"
    /\ trapezoids = <<>>
    /\ ~fused_leftovers
    /\ \E popped \in PopEvent(event_queue, edges) :
          /\ popped.event = None
          /\ Apply(final_flush([State EXCEPT !.event_queue = popped.queue]))
    /\ fused_leftovers' = TRUE
    /\ flushes' = flushes + 1
    /\ in_call' = TRUE
    /\ UNCHANGED <<seeded, size_hints, segments, variant, edges, returned, yielded,
                   exhausted, idle>>

\* next_trapezoid, loop iteration with an empty buffer, next_event = None and
\* the leftovers already flushed: return None
Trapezoids_next_none ==
    /\ variant = "Trapezoids"
    /\ trapezoids = <<>>
    /\ fused_leftovers
    /\ idle < MaxIdleCalls
    /\ \E popped \in PopEvent(event_queue, edges) :
          /\ popped.event = None
          /\ Apply([State EXCEPT !.event_queue = popped.queue])
    /\ exhausted' = TRUE
    /\ idle' = idle + 1
    /\ in_call' = FALSE
    /\ size_hints' = Observe(size_hints, Len(yielded), Trapezoids_size_hint(<<>>, EmptyBag))
    /\ UNCHANGED <<seeded, segments, variant, edges, fused_leftovers, returned,
                   yielded, flushes>>

Next ==
    \/ BentleyOttmann_next
    \/ Trapezoids_next_pop
    \/ Trapezoids_next_event
    \/ Trapezoids_next_flush
    \/ Trapezoids_next_none

Spec == Init /\ [][Next]_vars

(***************************************************************************)
(* The pop loop of next_event on queues that hold Intersection events.     *)
(* NhLineSegment_intersection never yields a point, so Spec never has such *)
(* an event in its queue; here at most MaxSeeded Intersection events, at   *)
(* an endpoint of either edge or at the middle of the first edge, are put  *)
(* into the initial queue of the events variant.                           *)
(***************************************************************************)
MaxSeeded == 2

MidY(e) == RDiv(RAdd(e.edge.top, e.edge.bottom), R(2))

SeedPoints(all, e, o) ==
    {all[e].lowest_y, all[e].highest_y, all[o].lowest_y, all[o].highest_y,
     Pt(x_at_y(all[e], MidY(all[e])), MidY(all[e]))}

SeedEvents(all) ==
    UNION {{[edge_id |-> p[1], event_type |-> "Intersection", other_edge |-> p[2], point |-> pt] :
               pt \in SeedPoints(all, p[1], p[2])} :
              p \in {q \in (1..Len(all)) \X (1..Len(all)) : q[1] # q[2]}}

RECURSIVE SubsetsUpTo(_, _)
SubsetsUpTo(S, k) ==
    IF k = 0 THEN {{}}
    ELSE SubsetsUpTo(S, k - 1) \cup {q \cup {a} : q \in SubsetsUpTo(S, k - 1), a \in S}

SeededInputs == {ScenarioS5, ScenarioS1, ScenarioCrossing}

SeededInit ==
    \E segs \in SeededInputs :
        \E seed \in SubsetsUpTo(SeedEvents(Algorithm_new_edges(segs)), MaxSeeded) :
            Algorithm_new(segs, "NoTrapezoids", seed)

SeededNext == BentleyOttmann_next

SeededSpec == SeededInit /\ [][SeededNext]_vars

(***************************************************************************)
(* The linked list on its own, driven as the tests of linked_list.rs drive *)
(* it: an arena of edges, an empty list, then push, insert, remove and     *)
(* swap in any order on the list rooted at active.  push and insert take   *)
(* an edge that is not in the list, remove and swap take a member.  calls  *)
(* holds the latest call with the list as it was before the call.          *)
(***************************************************************************)
MaxListEdges == 4

\* testing_edges(), continued in the same pattern past its four edges
testing_edges ==
    [i \in 1..MaxListEdges |->
        Seg(i, (i - 1) \div 2, 1 - (i - 1) \div 2, (i - 1) \div 2 + 1)]

\* edges that share the X of their first point in pairs
tied_edges == [i \in 1..MaxListEdges |-> Seg((i + 1) \div 2, 0, i, 1)]

ListArenas == {testing_edges, tied_edges}

\* the closure of the test sorted_linked_list, over the members of the list
first_x_descending(all, edge, members) ==
    [p \in {edge} \X members |-> RLe(all[p[2]].lowest_y.x, all[p[1]].lowest_y.x)]

\* the record of a call: the operation, its arguments, the list before it,
\* the edges pushed so far when the calls since the list was last empty were
\* all pushes, whether the calls since the list was last empty were all
\* inserts with the closure of the test, and for a swap of the edge that
\* the preceding swap moved behind its caller's edge, the list before that
\* preceding swap
Call(op, edge, before) ==
    [op |-> op, edge |-> edge, before |-> before,
     root |-> active, prev |-> prev, next |-> next,
     pushed |-> IF op # "push" THEN <<>>
                ELSE IF active = 0 THEN <<edge>>
                ELSE IF calls # <<>> /\ calls[1].pushed # <<>>
                     THEN Append(calls[1].pushed, edge)
                     ELSE <<>>,
     sorted |-> /\ op = "insert"
                /\ before = first_x_descending(edges, edge, Range(iter(active, next)))
                /\ active = 0 \/ (calls # <<>> /\ calls[1].sorted),
     undo |-> IF /\ op = "swap"
                 /\ calls # <<>>
                 /\ calls[1].op = "swap"
                 /\ calls[1].next[calls[1].edge] = edge
              THEN [root |-> calls[1].root, prev |-> calls[1].prev, next |-> calls[1].next]
              ELSE None]

ListInit == \E segs \in ListArenas : Algorithm_new(segs, "NoTrapezoids", {})

SetList(l) ==
    /\ active' = l.root
    /\ prev' = l.prev
    /\ next' = l.next
    /\ UNCHANGED <<segments, variant, edges, trapezoid, leftovers, current_y, event_queue,
                   trapezoids, fused_leftovers, in_call, returned, yielded, exhausted,
                   idle, flushes, drained, next_tag, seeded, buffered, size_hints>>

List_push ==
    \E edge \in DOMAIN next \ Range(iter(active, next)) :
        /\ SetList(push(active, prev, next, edge))
        /\ calls' = <<Call("push", edge, <<>>)>>

List_insert ==
    \E edge \in DOMAIN next \ Range(iter(active, next)) :
        \E before \in [{edge} \X Range(iter(active, next)) -> BOOLEAN] :
            /\ SetList(insert(active, prev, next, edge, before))
            /\ calls' = <<Call("insert", edge, before)>>

List_remove ==
    \E edge \in Range(iter(active, next)) :
        /\ SetList(remove(active, prev, next, edge))
        /\ calls' = <<Call("remove", edge, <<>>)>>

List_swap ==
    \E edge \in Range(iter(active, next)) :
        /\ SetList(swap(active, prev, next, edge))
        /\ calls' = <<Call("swap", edge, <<>>)>>

ListNext ==
    \/ List_push
    \/ List_insert
    \/ List_remove
    \/ List_swap

ListSpec == ListInit /\ [][ListNext]_vars

(***************************************************************************)
(* Properties.                                                             *)
(***************************************************************************)
\* (y, x) of p is lexicographically at most (y, x) of q
KeyLe(p, q) == RLt(p.y, q.y) \/ (p.y = q.y /\ RLe(p.x, q.x))

\* the list rooted at root is a well-formed doubly linked list
ValidList(root) ==
    /\ Len(iter(root, next)) <= Len(edges)
    /\ \A i, j \in 1..Len(iter(root, next)) :
          i # j => iter(root, next)[i] # iter(root, next)[j]
    /\ root # 0 => prev[root] = 0
    /\ \A i \in 1..(Len(iter(root, next)) - 1) :
          /\ next[iter(root, next)[i]] = iter(root, next)[i + 1]
          /\ prev[iter(root, next)[i + 1]] = iter(root, next)[i]
    /\ root # 0 => next[iter(root, next)[Len(iter(root, next))]] = 0

Members(root) == Range(iter(root, next))

\* the completed trapezoids of the run so far: returned ones, then buffered ones
Emitted == yielded \o trapezoids

\* line is the vertical line at abscissa x
VerticalAt(line, x) == line.direction.x = Zero /\ line.origin.x = R(x)

\* C1: the events returned by next_event, in either variant and on any input,
\* are non-decreasing in the key (point.y, point.x): no returned event has a
\* smaller key than one returned before it, Stop events enqueued during the
\* run included.
C1_ReturnedEventsSorted ==
    \A i, j \in 1..Len(returned) :
        i < j => KeyLe(returned[i].point, returned[j].point)

\* a run in which a Stop enqueued during the run was returned between Starts
\* of different sweep positions
C1_Witness ==
    \E i, j, k \in 1..Len(returned) :
        /\ i < j /\ j < k
        /\ returned[i].event_type = "Start"
        /\ returned[j].event_type = "Stop"
        /\ returned[k].event_type = "Start"
        /\ RLt(returned[i].point.y, returned[k].point.y)

\* C2: the trapezoid iterator is fused and emits nothing twice: once
\* next_trapezoid has returned None every later call returns None and yields
\* nothing, the final leftover flush runs at most once, and every partial
\* trapezoid produces at most one completed trapezoid over the whole run.
C2_FusedAndEmitsOnce ==
    /\ [](variant = "Trapezoids" =>
            /\ flushes <= 1
            /\ \A i, j \in 1..Len(Emitted) : i # j => Emitted[i].partial # Emitted[j].partial)
    /\ [][(variant = "Trapezoids" /\ exhausted) =>
            (exhausted' /\ yielded' = yielded /\ trapezoids' = <<>> /\ flushes' = flushes)]_vars

\* next_trapezoid has returned None twice, after a run that yielded a
\* trapezoid and flushed the leftovers
C2_Witness ==
    /\ variant = "Trapezoids"
    /\ idle = 2
    /\ flushes = 1
    /\ yielded # <<>>

\* C3: every trapezoid completed by the trapezoid iterator, from an active
\* pair, from a leftover during a Y step or in the final flush, has
\* bottom >= top.
C3_BottomNotAboveTop ==
    \A i \in 1..Len(Emitted) : RLe(Emitted[i].top, Emitted[i].bottom)

\* a trapezoid of positive height has been yielded after the final flush
C3_Witness ==
    /\ flushes = 1
    /\ \E i \in 1..Len(yielded) : RLt(yielded[i].top, yielded[i].bottom)

\* C4: after every call of next_event the active list is a valid doubly
\* linked list: the walk from the root visits each member once without a
\* cycle, the root has no prev, the last member has no next, and consecutive
\* members point at each other.
C4_ActiveListValid == ValidList(active)

\* two edges are still active after a Stop removed a third one
C4_Witness ==
    /\ Len(iter(active, next)) >= 2
    /\ \E i \in 1..Len(returned) : returned[i].event_type = "Stop"

\* C5: at every event boundary of the trapezoid variant every edge of the
\* arena is a member of a well-formed active or leftover list, or has both
\* prev and next equal to none; in particular an edge drained from the
\* leftovers by take_leftovers has both links none afterwards.
C5_LinkedOrCleared ==
    variant = "Trapezoids" =>
        /\ ValidList(active)
        /\ ValidList(leftovers)
        /\ \A e \in DOMAIN prev :
              \/ e \in Members(active) \cup Members(leftovers)
              \/ (prev[e] = 0 /\ next[e] = 0)

\* C6: no edge is a member of both lists: the ids reachable from the root of
\* the active list and those reachable from the root of the leftover list
\* are disjoint.
C6_ListsDisjoint == Members(active) \cap Members(leftovers) = {}

\* both lists have members at the same time
C6_Witness == active # 0 /\ leftovers # 0

\* C7: at every event boundary the active list is ordered by compare_edges at
\* current_y: every consecutive pair (a, b) compares Less or Equal, for
\* crossing inputs as well as for non-crossing ones.
C7_ActiveSorted ==
    \A i \in 1..(Len(iter(active, next)) - 1) :
        compare_edges(current_y, edges[iter(active, next)[i]], edges[iter(active, next)[i + 1]])
            \in {"Less", "Equal"}

\* C8: for the segments (0,0)-(10,10) and (0,10)-(10,0) the intersections
\* iterator yields exactly one point, (5,5).
C8_S1YieldsCrossing ==
    (segments = ScenarioS1 /\ variant = "NoTrapezoids" /\ exhausted) =>
        bentley_ottmann(returned) = <<Pt(R(5), R(5))>>

\* C9: for the four sides of the unit square the trapezoid iterator yields
\* exactly one trapezoid, with top = 0, bottom = 1, left the line x = 0 and
\* right the line x = 1.
C9_S2YieldsSquare ==
    (segments = ScenarioS2 /\ variant = "Trapezoids" /\ exhausted) =>
        /\ Len(yielded) = 1
        /\ yielded[1].top = R(0)
        /\ yielded[1].bottom = R(1)
        /\ VerticalAt(yielded[1].left, 0)
        /\ VerticalAt(yielded[1].right, 1)

\* C10: for (0,0)-(0,5), (0,5)-(0,10) and (1,0)-(1,10) the trapezoid iterator
\* yields exactly one trapezoid, with top = 0 and bottom = 10, and none that
\* starts or ends at y = 5.
C10_S3YieldsFullHeight ==
    (segments = ScenarioS3 /\ variant = "Trapezoids" /\ exhausted) =>
        /\ Len(yielded) = 1
        /\ yielded[1].top = R(0)
        /\ yielded[1].bottom = R(10)

\* ev is an Intersection event at the lowest or highest point of its edge
AtEndpointOfItsEdge(ev) ==
    /\ ev.event_type = "Intersection"
    /\ ev.point \in {edges[ev.edge_id].lowest_y, edges[ev.edge_id].highest_y}

\* C11: segments that only touch at a shared endpoint produce no reported
\* intersection: (0,0)-(2,2) and (2,2)-(4,0) yield nothing, and an
\* Intersection event whose point is the lowest or highest endpoint of its
\* edge is discarded on pop and never returned by next_event.
C11_EndpointIntersectionsDiscarded ==
    /\ \A i \in 1..Len(returned) : ~AtEndpointOfItsEdge(returned[i])
    /\ (/\ segments = ScenarioS5
        /\ \A ev \in seeded : AtEndpointOfItsEdge(ev)
        /\ exhausted) => bentley_ottmann(returned) = <<>>

\* the touching pair has been swept to the end with Intersection events at
\* the lowest and at the highest endpoint of an edge in the queue
C11_Witness ==
    /\ segments = ScenarioS5
    /\ exhausted
    /\ Len(returned) = 4
    /\ \E ev \in seeded : ev.point = edges[ev.edge_id].lowest_y
    /\ \E ev \in seeded : ev.point = edges[ev.edge_id].highest_y

RECURSIVE Reverse(_)
Reverse(q) == IF q = <<>> THEN <<>> ELSE Append(Reverse(Tail(q)), q[1])

\* the batches of bs one after the other
RECURSIVE Concat(_)
Concat(bs) == IF bs = <<>> THEN <<>> ELSE bs[1] \o Concat(Tail(bs))

\* the batches of bs one after the other, each read backwards
RECURSIVE ConcatReversed(_)
ConcatReversed(bs) == IF bs = <<>> THEN <<>> ELSE Reverse(bs[1]) \o ConcatReversed(Tail(bs))

C13_SizeHintBoundsRemaining ==
    variant = "Trapezoids" =>
        /\ Len(yielded) <= size_hints.most
        /\ exhausted => size_hints.least <= Len(yielded)

\* the number of calls made so far that returned an item, flushed or
\* returned None
CallsMade == Len(returned) + Len(yielded) + flushes + idle

\* until None has been returned a further call is possible and its pop loop
\* has an outcome; at most two events per edge are returned (Stop events
\* enqueued during the run included), the partial trapezoids ever opened are
\* bounded by the events and edges, each is buffered or yielded at most
\* once, the flush runs once, and with None the queue is empty
WorkBounded ==
    /\ Len(returned) <= 2 * Len(edges)
    /\ next_tag - 1 <= Len(returned) * Len(edges)
    /\ Len(yielded) + Len(trapezoids) < next_tag
    /\ flushes <= 1
    /\ ~exhausted => idle = 0 /\ PopEvent(event_queue, edges) # {}
    /\ exhausted => BagToSet(event_queue) = {}

\* C14: for every finite input both iterators terminate without failing:
\* every step of either iterator adds to the calls made, and the work
\* before None is returned is bounded by the number of edges, so None is
\* returned after finitely many calls.
C14_IteratorsTerminate ==
    /\ []WorkBounded
    /\ [][CallsMade' > CallsMade]_vars

\* the trapezoid iterator has returned None after all Start and Stop events
\* of three edges and at least one trapezoid
C14_Witness ==
    /\ variant = "Trapezoids"
    /\ exhausted
    /\ Len(edges) = 3
    /\ Len(returned) = 6
    /\ yielded # <<>>

\* positions of the input segments whose two endpoints differ in Y
KeptPositions == {i \in 1..Len(segments) : segments[i].from.y # segments[i].to.y}

\* the position in the input of the k-th segment that is not horizontal
KeptPosition(k) ==
    CHOOSE i \in KeptPositions : Cardinality({j \in KeptPositions : j <= i}) = k

\* the endpoint of a segment with the smaller Y, and the one with the larger
UpperEnd(s) == IF RLt(s.to.y, s.from.y) THEN s.to ELSE s.from
LowerEnd(s) == IF RLt(s.to.y, s.from.y) THEN s.from ELSE s.to

\* C15: Algorithm::new drops every horizontal segment and numbers the
\* survivors 1..N in input order, and before the first call the queue holds
\* exactly one Start event per stored edge, at its lowest_y, and nothing else.
C15_NewKeepsNonHorizontalInOrder ==
    /\ Len(edges) = Cardinality(KeptPositions)
    /\ \A k \in 1..Len(edges) :
          /\ edges[k].id = k
          /\ edges[k].lowest_y = UpperEnd(segments[KeptPosition(k)])
          /\ edges[k].highest_y = LowerEnd(segments[KeptPosition(k)])
    /\ CallsMade = 0 =>
          /\ BagCardinality(event_queue) = Len(edges)
          /\ \A k \in 1..Len(edges) :
                CopiesIn([edge_id |-> k, event_type |-> "Start", other_edge |-> 0,
                          point |-> edges[k].lowest_y], event_queue) = 1

\* a freshly constructed algorithm whose input has a horizontal segment
\* between two segments that are kept
C15_Witness ==
    /\ CallsMade = 0
    /\ Len(segments) = 3
    /\ KeptPositions = {1, 3}
    /\ Len(edges) = 2
    /\ BagCardinality(event_queue) = 2

\* the sequence s without its i-th element
Without(s, i) == SubSeq(s, 1, i - 1) \o SubSeq(s, i + 1, Len(s))

\* the position of the edge e in the sequence s of distinct edges
PositionIn(s, e) == CHOOSE i \in 1..Len(s) : s[i] = e

\* the list iterated before the latest call
WalkBefore == iter(calls[1].root, calls[1].next)

\* the prev cells along the list rooted at active mirror its next cells
BackLinked ==
    \A i \in 1..Len(iter(active, next)) :
        prev[iter(active, next)[i]] = IF i = 1 THEN 0 ELSE iter(active, next)[i - 1]

\* C16: after pushing e1..ek in that order onto an empty list, iter() yields
\* exactly e1..ek in that order and then ends.
C16_PushAppendsAtTail ==
    (calls # <<>> /\ calls[1].pushed # <<>>) => iter(active, next) = calls[1].pushed

\* every edge of the arena was pushed onto the empty list, not in id order
C16_Witness ==
    /\ calls # <<>>
    /\ Len(calls[1].pushed) = MaxListEdges
    /\ calls[1].pushed[1] = 2
    /\ iter(active, next)[MaxListEdges] = 1

\* the positions of the members that the closure of the latest call accepts
Accepted == {i \in 1..Len(WalkBefore) : calls[1].before[<<calls[1].edge, WalkBefore[i]>>]}

\* C17: insert(e, before) splices e immediately before the first member c,
\* in list order, with before(e, c), or at the tail when there is none, the
\* other members keeping their relative order; and a list built from empty
\* by inserts with the closure e.x >= c.x is in descending order of x.
C17_InsertBeforeFirstAccepted ==
    (calls # <<>> /\ calls[1].op = "insert") =>
        /\ BackLinked
        /\ Len(iter(active, next)) = Len(WalkBefore) + 1
        /\ Without(iter(active, next), PositionIn(iter(active, next), calls[1].edge))
              = WalkBefore
        /\ PositionIn(iter(active, next), calls[1].edge) =
              IF Accepted = {} THEN Len(WalkBefore) + 1
              ELSE CHOOSE i \in Accepted : \A j \in Accepted : i <= j
        /\ calls[1].sorted =>
              \A i \in 1..(Len(iter(active, next)) - 1) :
                  RLe(edges[iter(active, next)[i + 1]].lowest_y.x,
                      edges[iter(active, next)[i]].lowest_y.x)

\* the third edge was inserted with the closure of the test into a list
\* built with it, between members, with a member after it that the closure
\* accepts too
C17_Witness ==
    /\ calls # <<>>
    /\ calls[1].op = "insert"
    /\ calls[1].sorted
    /\ calls[1].edge = 3
    /\ Len(WalkBefore) = 3
    /\ Accepted = {2, 3}
    /\ iter(active, next)[2] = 3

\* C18: remove(e) on a member unlinks exactly e: iter() yields the former
\* members without e in the same order, the former predecessor and
\* successor of e are linked to each other (the root moves to the successor
\* when e was first), e's prev and next are none, and no other cell changes.
C18_RemoveUnlinksExactly ==
    (calls # <<>> /\ calls[1].op = "remove") =>
        /\ iter(active, next) = Without(WalkBefore, PositionIn(WalkBefore, calls[1].edge))
        /\ BackLinked
        /\ prev[calls[1].edge] = 0
        /\ next[calls[1].edge] = 0
        /\ calls[1].prev[calls[1].edge] = 0 => active = calls[1].next[calls[1].edge]
        /\ calls[1].prev[calls[1].edge] # 0 =>
              /\ active = calls[1].root
              /\ next[calls[1].prev[calls[1].edge]] = calls[1].next[calls[1].edge]
        /\ calls[1].next[calls[1].edge] # 0 =>
              prev[calls[1].next[calls[1].edge]] = calls[1].prev[calls[1].edge]
        /\ \A k \in DOMAIN next \ {calls[1].edge} :
              /\ k # calls[1].prev[calls[1].edge] => next[k] = calls[1].next[k]
              /\ k # calls[1].next[calls[1].edge] => prev[k] = calls[1].prev[k]

\* an edge with a predecessor and a successor was removed
C18_Witness ==
    /\ calls # <<>>
    /\ calls[1].op = "remove"
    /\ Len(WalkBefore) = 4
    /\ PositionIn(WalkBefore, calls[1].edge) = 2

\* the sequence s with its elements at i and i + 1 exchanged
Exchanged(s, i) ==
    [k \in 1..Len(s) |-> IF k = i THEN s[i + 1] ELSE IF k = i + 1 THEN s[i] ELSE s[k]]

\* C19: swap(e) on a member e with successor n exchanges exactly e and n: n
\* is immediately before e, every other member keeps its position, the
\* membership is unchanged and the root is n when e was first.
C19_SwapExchangesWithSuccessor ==
    (calls # <<>> /\ calls[1].op = "swap" /\ calls[1].next[calls[1].edge] # 0) =>
        /\ iter(active, next) = Exchanged(WalkBefore, PositionIn(WalkBefore, calls[1].edge))
        /\ BackLinked
        /\ prev[calls[1].edge] = calls[1].next[calls[1].edge]
        /\ calls[1].root = calls[1].edge => active = calls[1].next[calls[1].edge]

\* the first edge of a list of two or more was swapped with its successor
C19_Witness ==
    /\ calls # <<>>
    /\ calls[1].op = "swap"
    /\ calls[1].root = calls[1].edge
    /\ calls[1].next[calls[1].edge] # 0
    /\ Len(WalkBefore) >= 3

\* C20: swap(e) followed by swap(n), n being the successor of e before the
\* first swap, leaves the root and every prev and next cell as they were
\* before the first swap.
C20_SwapTwiceRestores ==
    (calls # <<>> /\ calls[1].undo # None) =>
        /\ active = calls[1].undo.root
        /\ prev = calls[1].undo.prev
        /\ next = calls[1].undo.next

\* two swaps undid each other in the middle of a list of four
C20_Witness ==
    /\ calls # <<>>
    /\ calls[1].undo # None
    /\ Len(WalkBefore) = 4
    /\ PositionIn(WalkBefore, calls[1].edge) = 2
    /\ active = calls[1].undo.root
    /\ iter(active, next) # WalkBefore

\* the event returned by the latest call of next_event
LastReturned == returned[Len(returned)]

\* this step returns an Intersection event whose edge had no successor on
\* the active list when the event was popped
SwapsWithoutSuccessor ==
    /\ Len(returned') = Len(returned) + 1
    /\ returned'[Len(returned')].event_type = "Intersection"
    /\ next[returned'[Len(returned')].edge_id] = 0

YStep ==
    /\ variant = "Trapezoids"
    /\ Len(returned') = Len(returned) + 1
    /\ approx_eq(current_y, returned'[Len(returned')].point.y)

\* the pairs (first, second), (third, fourth), ... of the walk w
OddEvenPairs(w) == {<<w[i], w[i + 1]>> : i \in {j \in 1..(Len(w) - 1) : j % 2 = 1}}

\* the pairs of the active list that the sweep of this step considers
ConsideredPairs == OddEvenPairs(iter(active, next))

\* the trapezoids buffered by this step
NewBatch == IF Len(buffered') > Len(buffered) THEN buffered'[Len(buffered')] ELSE <<>>

\* the trapezoids buffered by this step that close the partial of the left
\* edge of a considered pair
FromActiveList ==
    {NewBatch[i] : i \in {j \in 1..Len(NewBatch) :
        \E p \in ConsideredPairs :
            /\ trapezoid[p[1]] # None
            /\ trapezoid[p[1]].partial = NewBatch[j].partial}}

\* C22 as stated: in each Y step the (left, right) lines of the trapezoids
\* emitted from the active list are exactly the (L.line, R.line) of the
\* considered pairs (L, R) whose partial on L changed.
C22_EmittedAreChangedPairs ==
    [][YStep =>
          {<<t.left, t.right>> : t \in FromActiveList} =
          {<<edges[p[1]].edge.line, edges[p[2]].edge.line>> :
              p \in {q \in ConsideredPairs : trapezoid'[q[1]] # trapezoid[q[1]]}}]_vars

\* the considered pairs (L, R) where L holds a partial against an edge other
\* than R and not colinear with R, begun at or above the sweep line
ClosingPairs ==
    {p \in ConsideredPairs :
        /\ trapezoid[p[1]] # None
        /\ trapezoid[p[1]].right_edge # p[2]
        /\ ~colinear(edges[trapezoid[p[1]].right_edge], edges[p[2]])
        /\ ~RLt(current_y, trapezoid[p[1]].top)}

\* C22 amended: in each Y step the trapezoids emitted from the active list
\* are exactly one per considered pair (L, R) where L held a partial against
\* an edge Q other than R and not colinear with R; it spans from the top of
\* that partial to the sweep line between L.line and Q.line, not R.line, and
\* the partial of every such L changed.  A pair whose L held no partial, or
\* one against an edge colinear with R, changes its partial and emits
\* nothing.
C22_EmittedAreClosedPartials ==
    [][YStep =>
          /\ {[top |-> t.top, bottom |-> t.bottom, left |-> t.left, right |-> t.right] :
                 t \in FromActiveList} =
             {[top |-> trapezoid[p[1]].top, bottom |-> current_y,
               left |-> edges[p[1]].edge.line,
               right |-> edges[trapezoid[p[1]].right_edge].edge.line] : p \in ClosingPairs}
          /\ \A p \in ClosingPairs : trapezoid'[p[1]] # trapezoid[p[1]]]_vars

\* a sweep of the active list has closed a partial whose right line is not
\* the line of the new right neighbour, before any leftover was drained
C22_Witness ==
    /\ variant = "Trapezoids"
    /\ drained = {}
    /\ Len(buffered) = 1
    /\ \E L \in DOMAIN trapezoid :
          /\ trapezoid[L] # None
          /\ buffered[1][1].left = edges[L].edge.line
          /\ buffered[1][1].right # edges[trapezoid[L].right_edge].edge.line
          /\ buffered[1][1].bottom = trapezoid[L].top

\* C23 as stated: on a Start(e) event, with e inserted between p and n, the
\* driver evaluates intersection_event(p, e) and intersection_event(e, n),
\* the left neighbour being the first argument in both calls.
C23_StartEvaluatesLeftFirst ==
    (returned # <<>> /\ LastReturned.event_type = "Start") =>
        calls = (IF prev[LastReturned.edge_id] # 0
                 THEN <<IntersectionCall(prev[LastReturned.edge_id], LastReturned.edge_id)>>
                 ELSE <<>>)
                \o (IF next[LastReturned.edge_id] # 0
                    THEN <<IntersectionCall(LastReturned.edge_id, next[LastReturned.edge_id])>>
                    ELSE <<>>)

\* the considered pairs (L, R) where L holds a partial against R itself or
\* against an edge colinear with R
ContinuingPairs ==
    {p \in ConsideredPairs :
        /\ trapezoid[p[1]] # None
        /\ \/ trapezoid[p[1]].right_edge = p[2]
           \/ colinear(edges[trapezoid[p[1]].right_edge], edges[p[2]])}

\* C24: start_trapezoid(L, R, y) when L already holds a partial whose right
\* edge is R itself or is colinear with R emits no trapezoid and leaves the
\* top of the partial unchanged; afterwards the right edge of the partial is R.
C24_ContinuedPartialKeepsTop ==
    [][YStep =>
          \A p \in ContinuingPairs :
              /\ trapezoid'[p[1]] = [trapezoid[p[1]] EXCEPT !.right_edge = p[2]]
              /\ \A i \in 1..Len(NewBatch) :
                    NewBatch[i].partial # trapezoid[p[1]].partial]_vars

\* the edge (0,0)-(0,1) got its partial against the first of two equal edges
\* next to it, and a later sweep paired it with the second one: the partial,
\* the only one created so far, now names the second and keeps its top
C24_Witness ==
    /\ variant = "Trapezoids"
    /\ segments = <<Seg(0, 0, 0, 1), Seg(0, 1, 1, 2), Seg(0, 1, 1, 2)>>
    /\ Len(returned) = 4
    /\ returned[2].edge_id = 2
    /\ returned[3].edge_id = 3
    /\ trapezoid[1] = [right_edge |-> 3, top |-> R(1), partial |-> 1]
    /\ next_tag = 2
    /\ buffered = <<>>

\* the trapezoids buffered by this step that carry the partial numbered tag
CompletedFrom(tag) ==
    {[top |-> NewBatch[i].top, bottom |-> NewBatch[i].bottom,
      left |-> NewBatch[i].left, right |-> NewBatch[i].right] :
        i \in {j \in 1..Len(NewBatch) : NewBatch[j].partial = tag}}

\* C25: start_trapezoid(L, R, y) when L holds a partial {right_edge = Q,
\* top = t} with Q other than R and not colinear with R completes it at
\* bottom = y, returning {top = t, bottom = y, left = L's line, right = Q's
\* line} (nothing when y < t), and installs on L the partial {right_edge =
\* R, top = y}; when L holds no partial it only installs that partial:
\* every trapezoid of the step closes a partial that a leftover edge or the
\* left edge of such a pair held before.
C25_CompletesAndInstalls ==
    [][YStep =>
          /\ \A p \in ConsideredPairs \ ContinuingPairs :
                /\ trapezoid'[p[1]] # None
                /\ trapezoid'[p[1]].right_edge = p[2]
                /\ trapezoid'[p[1]].top = current_y
                /\ trapezoid'[p[1]].partial >= next_tag
                /\ trapezoid[p[1]] # None =>
                      CompletedFrom(trapezoid[p[1]].partial) =
                          IF RLt(current_y, trapezoid[p[1]].top) THEN {}
                          ELSE {[top |-> trapezoid[p[1]].top, bottom |-> current_y,
                                 left |-> edges[p[1]].edge.line,
                                 right |-> edges[trapezoid[p[1]].right_edge].edge.line]}
          /\ \A i \in 1..Len(NewBatch) :
                \E k \in DOMAIN trapezoid :
                    /\ trapezoid[k] # None
                    /\ trapezoid[k].partial = NewBatch[i].partial
                    /\ \/ k \in Range(iter(leftovers, next))
                       \/ \E p \in ConsideredPairs \ ContinuingPairs : p[1] = k]_vars

\* a sweep of the active list has closed a partial of positive height and
\* installed a later one on the same edge, that begins where the first ends
C25_Witness ==
    /\ variant = "Trapezoids"
    /\ drained = {}
    /\ \E L \in DOMAIN trapezoid :
          /\ trapezoid[L] # None
          /\ \E b \in 1..Len(buffered) :
                /\ buffered[b][1].left = edges[L].edge.line
                /\ buffered[b][1].right # edges[trapezoid[L].right_edge].edge.line
                /\ buffered[b][1].bottom = trapezoid[L].top
                /\ buffered[b][1].partial < trapezoid[L].partial
                /\ RLt(buffered[b][1].top, buffered[b][1].bottom)

\* this step is a call of next_event of the trapezoid variant that returns
\* a Start event
StartStep ==
    /\ variant = "Trapezoids"
    /\ Len(returned') = Len(returned) + 1
    /\ returned'[Len(returned')].event_type = "Start"

\* the positions on the leftover list of the edges l with E.top <= l.bottom
\* and E colinear with l, E being the edge the step starts
Fusable ==
    {i \in 1..Len(iter(leftovers, next)) :
        /\ RLe(edges[returned'[Len(returned')].edge_id].edge.top,
               edges[iter(leftovers, next)[i]].edge.bottom)
        /\ colinear(edges[returned'[Len(returned')].edge_id],
                    edges[iter(leftovers, next)[i]])}

\* the first leftover edge that the started edge can be fused with
FirstFusable == iter(leftovers, next)[CHOOSE i \in Fusable : \A j \in Fusable : i <= j]

\* C26 as stated: if at the moment a Start(E) event is popped the leftover
\* list contains an edge l with E.top <= l.bottom and E colinear with l, then
\* processing the event transfers the partial of l (the first such edge)
\* onto E and removes l from the leftover list, and no trapezoid is emitted
\* for that partial during the event.
C26_LeftoverFusedOnStart ==
    [][(StartStep /\ Fusable # {}) =>
          /\ trapezoid'[returned'[Len(returned')].edge_id] = trapezoid[FirstFusable]
          /\ trapezoid'[FirstFusable] = None
          /\ FirstFusable \notin Range(iter(leftovers', next'))
          /\ CompletedFrom(trapezoid[FirstFusable].partial) = {}]_vars

\* C27: in a Y step the active list [a1, a2, a3, a4, ...] is paired as
\* (a1, a2), (a3, a4), ...: each edge is in at most one pair, only an edge at
\* an odd position that has a successor acts as the left edge of
\* start_trapezoid, which leaves on it a partial against its successor, and
\* with an odd number of active edges the last one is in no pair.
C27_ActivePairedDisjointly ==
    /\ [](pairs(active, next) =
             [k \in 1..(Len(iter(active, next)) \div 2) |->
                 <<iter(active, next)[2 * k - 1], iter(active, next)[2 * k]>>])
    /\ [][YStep =>
             \A i \in 1..Len(iter(active, next)) :
                 IF i % 2 = 1 /\ i < Len(iter(active, next))
                 THEN /\ trapezoid'[iter(active, next)[i]] # None
                      /\ trapezoid'[iter(active, next)[i]].right_edge =
                             iter(active, next)[i + 1]
                 ELSE trapezoid'[iter(active, next)[i]] =
                          trapezoid[iter(active, next)[i]]]_vars

\* on (0,0)-(0,5), (0,5)-(0,10), (1,0)-(1,10) the Stop of the first edge was
\* swept with the active list [2, 1, 3]: edge 2 got a partial against edge
\* 1, edge 1 at the second position got none and so left no leftover, and
\* edge 3, the last of three, was in no pair
C27_Witness ==
    /\ variant = "Trapezoids"
    /\ segments = ScenarioS3
    /\ Len(returned) = 4
    /\ LastReturned = stop_event(edges[1])
    /\ iter(active, next) = <<2, 3>>
    /\ leftovers = 0
    /\ trapezoid = <<None, [right_edge |-> 1, top |-> R(5), partial |-> 1], None>>

\* the positions in the returned events of the events of the given type for
\* the edge k
Returns(type, k) ==
    {i \in 1..Len(returned) : returned[i].event_type = type /\ returned[i].edge_id = k}

\* C28: over a run next_event returns for every stored edge at most one Start
\* and at most one Stop event, the Stop only after the Start; an edge is on
\* the active list exactly between the two; and once next_event has returned
\* None both events of every edge have been returned and the active list is
\* empty.
C28_OneStartOneStopPerEdge ==
    LET PerEdge(members) ==
            \A k \in 1..Len(edges) :
                LET Paired(starts, stops) ==
                        /\ Cardinality(starts) <= 1
                        /\ Cardinality(stops) <= 1
                        /\ \A j \in stops : \E i \in starts : i < j
                        /\ k \in members <=> (starts # {} /\ stops = {})
                        /\ exhausted => (starts # {} /\ stops # {})
                IN  Paired(Returns("Start", k), Returns("Stop", k))
    IN  /\ \A i \in 1..Len(returned) :
              returned[i] = IF returned[i].event_type = "Start"
                            THEN start_event(edges[returned[i].edge_id])
                            ELSE stop_event(edges[returned[i].edge_id])
        /\ PerEdge(Range(iter(active, next)))
        /\ exhausted => active = 0

\* the events iterator has returned None after three edges were started, were
\* all active at once, and were stopped
C28_Witness ==
    /\ variant = "NoTrapezoids"
    /\ exhausted
    /\ Len(edges) = 3
    /\ Len(returned) = 6
    /\ \A i \in 1..3 : returned[i].event_type = "Start"
    /\ active = 0

\* C29: in the trapezoid variant every edge on the leftover list holds a
\* pending partial trapezoid and its Stop event has been returned, in every
\* state between two calls and not only right after the edge was pushed; in
\* the events variant the leftover list is always empty.
C29_LeftoversHoldStoppedPartials ==
    LET Held(walk) ==
            \A i \in 1..Len(walk) :
                /\ trapezoid[walk[i]] # None
                /\ Returns("Stop", walk[i]) # {}
    IN  /\ variant = "Trapezoids" => Held(iter(leftovers, next))
        /\ variant = "NoTrapezoids" => leftovers = 0

\* an edge waits on the leftover list, and the event returned last is not the
\* Stop event of any leftover edge
C29_Witness ==
    LET Waiting(walk) ==
            /\ walk # <<>>
            /\ \A i \in 1..Len(walk) :
                  returned[Len(returned)] # stop_event(edges[walk[i]])
    IN  /\ variant = "Trapezoids"
        /\ returned # <<>>
        /\ Waiting(iter(leftovers, next))

\* the edges that hold a pending partial
Holders == {k \in 1..Len(edges) : trapezoid[k] # None}

\* the tags of the partials pending on some edge
PendingTags == {trapezoid[k].partial : k \in Holders}

\* the tags of the partials completed into a trapezoid that is in the buffer
\* or was returned by next_trapezoid
EmittedTags ==
    {trapezoids[i].partial : i \in 1..Len(trapezoids)}
        \cup {yielded[i].partial : i \in 1..Len(yielded)}

\* every partial created so far is pending on exactly one edge or was
\* completed into a trapezoid, never both; and after next_trapezoid has
\* returned None no edge holds a partial and the leftover list is empty
NoPartialLost ==
    /\ \A tag \in 1..(next_tag - 1) : tag \in PendingTags \/ tag \in EmittedTags
    /\ PendingTags \cap EmittedTags = {}
    /\ \A k \in Holders : \A l \in Holders : trapezoid[k].partial = trapezoid[l].partial => k = l
    /\ (variant = "Trapezoids" /\ exhausted) => (Holders = {} /\ leftovers = 0)

\* the final leftover flush, run when the queue is empty, takes the partial
\* out of every edge that holds one and buffers the trapezoid completed from
\* it between the partial's top and the bottom of the edge's segment
FlushedAtSegmentBottom ==
    flushes' # flushes =>
        \A k \in Holders :
            /\ trapezoid'[k] = None
            /\ \E i \in 1..Len(trapezoids') :
                  /\ trapezoids'[i].partial = trapezoid[k].partial
                  /\ trapezoids'[i].top = trapezoid[k].top
                  /\ trapezoids'[i].bottom = edges[k].edge.bottom
                  /\ trapezoids'[i].left = edges[k].edge.line
                  /\ trapezoids'[i].right = edges[trapezoid[k].right_edge].edge.line

\* C30: no partial trapezoid is lost: every partial ever created is pending on
\* one edge or was completed and emitted, a partial still pending when the
\* queue empties is completed at the bottom of the segment of the edge that
\* holds it, and once next_trapezoid has returned None no edge holds a
\* partial and the leftover list is empty.
C30_NoPartialLost == []NoPartialLost /\ [][FlushedAtSegmentBottom]_vars

\* next_trapezoid has returned None after a final flush that completed the
\* partials of two leftover edges
C30_Witness ==
    /\ variant = "Trapezoids"
    /\ exhausted
    /\ flushes = 1
    /\ buffered # <<>>
    /\ Len(buffered[Len(buffered)]) = 2
    /\ next_tag - 1 = Len(yielded)

====
